---- MODULE Spec2Model ----
(***************************************************************************)
(* The beat-synchronous scheduler (baston/clock.py, class Clock) and the   *)
(* pattern players that re-arm themselves on it (baston/systems/Player.py, *)
(* class Player).                                                          *)
(*                                                                         *)
(* Musical time is counted in ticks, Res ticks to the beat, so that beats  *)
(* that lie off a beat boundary exist.  The registry Clock._children is a  *)
(* Python dict: it is modelled as the sequence of its values in insertion  *)
(* order.  A loop pass works on the list `possible_callables`, which holds *)
(* references to the PriorityEvent objects: a queue element is a copy of   *)
(* the object together with the flag `stale`, which says that the object   *)
(* is no longer the one the dict holds; copies that are not stale follow   *)
(* every in-place mutation that Clock.add makes.                           *)
(***************************************************************************)
EXTENDS Integers, Sequences, FiniteSets, TLC

VARIABLES
    children,      \* Clock._children, in insertion order
    beat,          \* Clock._beat, in ticks
    stop_event,    \* Clock._stop_event
    clock_thread,  \* Clock._clock_thread
    loops,         \* the threads running Clock.run: position, possible_callables
    uuid,          \* number of uuid4 tokens drawn so far
    players,       \* the Player objects, by name
    ops,           \* number of calls made from outside the loop threads
    hist,          \* history, per identity: the `once` of its latest add, invocations since
    sink,          \* history, per Player: sink calls since the counters were reset
    last           \* history: what the latest step did

vars == <<children, beat, stop_event, clock_thread, loops, uuid, players, ops, hist, sink, last>>

----------------------------------------------------------------------------
(* Bounds of the model *)

Res == 2          \* ticks per beat
MaxOps == 3       \* calls made on the Clock from outside the loop threads
MaxPlayerOps == 2 \* calls made on the Players from outside the loop threads
MaxThreads == 2   \* loop threads
MaxUuid == 1      \* anonymous actions added
MaxIter == 3      \* activations of one Player

(* Program constants *)

Denominator == 4  \* Clock._denominator

BarTicks == Denominator * Res
Beats(n) == n * Res
NoTime == 0 - 1   \* the default `time=None` of Clock.add

Threads == 1..MaxThreads

(* the beats at which the transport is observed, in ticks: on a bar boundary,
   off a beat boundary, and on the next bar boundary *)
Transport == {0, Res + 1, BarTicks}
PlayerNames == {"aa", "bb"}

----------------------------------------------------------------------------
(* Callables.  `name` is __name__, `kind` says what a call does, `owner`   *)
(* is the Player a bound method belongs to.                                *)

Fn(name, kind) == [name |-> name, kind |-> kind, owner |-> ""]
Bound(p, method) == [name |-> method, kind |-> method, owner |-> p]

f_ok == Fn("f", "ok")          \* returns
g_bad == Fn("g", "bad")        \* raises BadFunctionError
h_boom == Fn("h", "boom")      \* raises another exception
r_readd == Fn("r", "readd")    \* calls clock.add(r) and returns
anon == Fn("<lambda>", "ok")   \* a lambda that returns
c_clear == Fn("c", "clear")    \* calls clock.clear() and returns
d_remove == Fn("d", "remove")  \* calls clock.remove(f) and returns

PlainFuncs == {f_ok, g_bad, h_boom, r_readd, anon, c_clear, d_remove}
IdentityNames == {"f", "g", "h", "r", "c", "d", "_func", "_silence", "_transition_to_next_pattern"}
                    \cup {"uuid" \o ToString(n) : n \in 1..(MaxUuid + 1)}

NoKwargs == {}
AddTimes == {Beats(1), Beats(2)}
AddArgs == {<< >>, <<1>>}

(* the calls clock.add(func, time, once, *args) made from outside *)
AddCalls ==
    ({f_ok} \X AddTimes \X {FALSE} \X AddArgs)
        \cup ({f_ok} \X {Beats(1)} \X {TRUE} \X {<< >>})
        \cup ({g_bad, r_readd} \X {Beats(1)} \X BOOLEAN \X {<< >>})
        \cup ({h_boom} \X {Beats(1)} \X {FALSE} \X {<< >>})
        \cup ({anon} \X {NoTime} \X {TRUE} \X {<< >>})

----------------------------------------------------------------------------
(* The registry *)

PriorityEvent(name, priority, item, once) ==
    [name |-> name, priority |-> priority, item |-> item, once |-> once]

Item(func, args, kwargs) == [func |-> func, args |-> args, kwargs |-> kwargs]

Find(ch, name) ==
    IF \E i \in 1..Len(ch) : ch[i].name = name
    THEN CHOOSE i \in 1..Len(ch) : ch[i].name = name
    ELSE 0

Has(ch, name) == Find(ch, name) # 0

Get(ch, name) == ch[Find(ch, name)]

Without(ch, name) == SelectSeq(ch, LAMBDA e : e.name # name)

Ref(e) == [name |-> e.name, priority |-> e.priority, item |-> e.item,
           once |-> e.once, stale |-> FALSE]

(* sorted(values, key=priority): Python's sort is stable *)
RECURSIVE InsertSorted(_, _)
InsertSorted(s, e) ==
    IF s = << >> THEN <<e>>
    ELSE IF Head(s).priority <= e.priority
         THEN <<Head(s)>> \o InsertSorted(Tail(s), e)
         ELSE <<e>> \o s

RECURSIVE SortedBy(_)
SortedBy(s) ==
    IF s = << >> THEN << >>
    ELSE InsertSorted(SortedBy(SubSeq(s, 1, Len(s) - 1)), s[Len(s)])

MapSeq(s, Op(_)) == [i \in 1..Len(s) |-> Op(s[i])]

(* every list a loop holds sees the in-place change of a PriorityEvent *)
Mutated(lp, name, priority, item) ==
    [t \in DOMAIN lp |->
        [lp[t] EXCEPT !.queue = MapSeq(@, LAMBDA c :
            IF c.name = name /\ ~c.stale
            THEN [c EXCEPT !.priority = priority, !.item = item]
            ELSE c)]]

(* the object stored under `name` left the dict *)
Detached(lp, names) ==
    [t \in DOMAIN lp |->
        [lp[t] EXCEPT !.queue = MapSeq(@, LAMBDA c :
            IF c.name \in names THEN [c EXCEPT !.stale = TRUE] ELSE c)]]

NoHist == [once |-> FALSE, fires |-> 0]

NoItem == Item(Fn("", ""), << >>, {})

NoNote == [name |-> "", time |-> NoTime, item |-> NoItem, existed |-> FALSE,
           rest |-> FALSE, dur |-> NoTime, again |-> FALSE, quant |-> ""]

(* Clock.add, lines 159-162: the identity of an action *)
FuncName(w, func) ==
    IF func.name # "<lambda>" THEN func.name ELSE "uuid" \o ToString(w.uuid + 1)

(* Clock.add, were an existing entry to keep its payload *)
ClockAddKeepItem(w, func, time, once, args, kwargs) ==
    LET t == IF time = NoTime THEN w.beat + Beats(1) ELSE time
        func_name == FuncName(w, func)
        item == Item(func, args, kwargs)
        i == Find(w.children, func_name)
    IN  IF i # 0
        THEN [w EXCEPT
                !.children[i].priority = t,
                !.loops = Mutated(@, func_name, t, w.children[i].item),
                !.hist[func_name] = [once |-> once, fires |-> 0],
                !.note = [@ EXCEPT !.name = func_name, !.time = t, !.item = item,
                                   !.existed = TRUE]]
        ELSE [w EXCEPT
                !.children = Append(@, PriorityEvent(func_name, t, item, once)),
                !.uuid = IF func.name = "<lambda>" THEN @ + 1 ELSE @,
                !.hist[func_name] = [once |-> once, fires |-> 0],
                !.note = [@ EXCEPT !.name = func_name, !.time = t, !.item = item,
                                   !.existed = FALSE]]

(* Clock.add *)
ClockAdd(w, func, time, once, args, kwargs) ==
    LET t == IF time = NoTime THEN w.beat + Beats(1) ELSE time
        func_name == FuncName(w, func)
        item == Item(func, args, kwargs)
        i == Find(w.children, func_name)
    IN  IF i # 0
        THEN [w EXCEPT
                !.children[i].priority = t,
                !.children[i].item = item,
                !.loops = Mutated(@, func_name, t, item),
                !.hist[func_name] = [once |-> once, fires |-> 0],
                !.note = [@ EXCEPT !.name = func_name, !.time = t, !.item = item,
                                   !.existed = TRUE]]
        ELSE [w EXCEPT
                !.children = Append(@, PriorityEvent(func_name, t, item, once)),
                !.uuid = IF func.name = "<lambda>" THEN @ + 1 ELSE @,
                !.hist[func_name] = [once |-> once, fires |-> 0],
                !.note = [@ EXCEPT !.name = func_name, !.time = t, !.item = item,
                                   !.existed = FALSE]]

(* del self._children[name] *)
Del(w, name) ==
    [w EXCEPT !.children = Without(@, name),
              !.loops = Detached(@, {name})]

(* Clock.remove with one action: bound methods do not pass the filter *)
ClockRemove(w, func) ==
    IF func.owner = "" /\ Has(w.children, func.name) THEN Del(w, func.name) ELSE w

(* Clock.clear *)
ClockClear(w) ==
    [w EXCEPT !.children = << >>,
              !.loops = Detached(@, IdentityNames)]

(* Clock.beats_until_next_bar and Clock.next_bar *)
beats_until_next_bar(b) == BarTicks - (b % BarTicks)

next_bar(b) == b + beats_until_next_bar(b)

----------------------------------------------------------------------------
(* Values of a PlayerPattern: concrete, Rest, Pattern (index -> value) or  *)
(* zero-argument producer.                                                 *)

Num(v) == [t |-> "num", v |-> v]
Str(v) == [t |-> "str", v |-> v]
Bool(v) == [t |-> "bool", v |-> v]
Rest(d) == [t |-> "rest", v |-> d]
Pat(seq) == [t |-> "pat", v |-> seq]
Lazy(v) == [t |-> "fn", v |-> v]

(* Pattern.__call__(index): the values of the pattern, cycled *)
PatternAt(pat, i) == pat.v[(i % Len(pat.v)) + 1]

PlayerPattern(send_method, args, kwargs) ==
    [send_method |-> send_method, args |-> args, kwargs |-> kwargs]

Notes == Pat(<<Num(60), Num(62), Num(64)>>)

Patterns ==
    [P1 |-> PlayerPattern("send", <<Notes>>, [dur |-> Num(Beats(1))]),
     P2 |-> PlayerPattern("send_raises", <<Notes>>,
                [dur |-> Num(Beats(1)), quant |-> Str("bar")]),
     P3 |-> PlayerPattern("send", <<Notes>>,
                [dur |-> Pat(<<Num(Beats(1)), Rest(Beats(2))>>), quant |-> Str("beat")]),
     P4 |-> PlayerPattern("send", <<Notes>>,
                [dur |-> Lazy(Rest(Beats(1))), quant |-> Num(Beats(1))]),
     P5 |-> PlayerPattern("send", <<Notes>>,
                [dur |-> Num(Beats(1)), quant |-> Str("now"), once |-> Bool(TRUE)]),
     P6 |-> PlayerPattern("send", <<Notes>>,
                [dur |-> Num(Beats(1)), quant |-> Str("swing")])]

PatternIds == DOMAIN Patterns

(* dict.get(key, default) *)
KwGet(kwargs, key, default) == IF key \in DOMAIN kwargs THEN kwargs[key] ELSE default

(* the value a payload's kwargs hold under `key` *)
KwVal(kwargs, key) == (CHOOSE kv \in kwargs : kv[1] = key)[2]

NewPlayer == [iterator |-> 0, silence_count |-> 0, pattern |-> "None",
              next_pattern |-> "None", transition_scheduled |-> FALSE]

NoSink == [n |-> 0, idx |-> 0, args |-> << >>, kwargs |-> << >>, raised |-> FALSE]

(* Player._args_resolver *)
RECURSIVE args_resolver(_, _)
args_resolver(args, idx) ==
    IF args = << >> THEN << >>
    ELSE LET arg == Head(args)
             new == IF arg.t = "pat" THEN <<PatternAt(arg, idx)>>
                    ELSE IF arg.t = "fn" THEN <<arg.v>>
                    ELSE << >>
         IN  new \o args_resolver(Tail(args), idx)

(* Player._kwargs_resolver.resolve_value *)
RECURSIVE resolve_value(_, _)
resolve_value(value, idx) ==
    IF value.t = "pat" THEN resolve_value(PatternAt(value, idx), idx)
    ELSE IF value.t = "fn" THEN value.v
    ELSE value

(* Player._kwargs_resolver *)
kwargs_resolver(kwargs, idx) == [k \in DOMAIN kwargs |-> resolve_value(kwargs[k], idx)]

(* Player._push, lines 206-211: the loop that resolves kwargs["time"] *)
RECURSIVE resolve_time(_, _)
resolve_time(time, iterator) ==
    IF time.t = "pat" THEN resolve_time(PatternAt(time, iterator), iterator)
    ELSE IF time.t = "fn" THEN resolve_time(time.v, iterator)
    ELSE time

(* Clock.next_beat: the next beat boundary *)
next_beat(b) == b + (Res - (b % Res))

(* the first due beat, were it computed as a re-arm from the current beat *)
quantized_as_rearm(quant_policy, b, time) == b + time

(* Player._push, lines 219-229: the first due beat of a pattern *)
quantized(quant_policy, b, time) ==
    IF quant_policy.t = "str" /\ quant_policy.v = "bar" THEN next_bar(b)
    ELSE IF quant_policy.t = "str" /\ quant_policy.v = "beat" THEN next_beat(b)
    ELSE IF quant_policy.t = "str" /\ quant_policy.v = "now" THEN b
    ELSE IF quant_policy.t = "num" THEN b + quant_policy.v
    ELSE time

QuantName(q) == IF q.t = "str" THEN q.v ELSE "numeric"

(* Player._push (the second definition, which is the one the class keeps) *)
push(w, p, again) ==
    LET pl == w.players[p]
    IN  IF pl.pattern = "None" /\ pl.next_pattern = "None" THEN w
        ELSE
        LET id == IF pl.pattern # "None" THEN pl.pattern ELSE pl.next_pattern
            current_pattern == Patterns[id]
            resolved == resolve_time(Lazy(KwGet(current_pattern.kwargs, "dur", Num(Beats(1)))),
                                     pl.iterator)
            schedule_silence == resolved.t = "rest"
            quant_policy == KwGet(current_pattern.kwargs, "quant", Str("now"))
            time == IF again THEN resolved.v ELSE quantized(quant_policy, w.beat, resolved.v)
            once == KwGet(current_pattern.kwargs, "once", Bool(FALSE)).v
            kwargs == {<<"name", p>>, <<"pattern", id>>, <<"passthrough", "False">>,
                       <<"relative", IF again THEN "True" ELSE "False">>}
            w1 == [w EXCEPT
                     !.players[p].silence_count = IF schedule_silence THEN @ + 1 ELSE @,
                     !.note = [@ EXCEPT !.rest = schedule_silence, !.dur = resolved.v,
                                        !.again = again, !.quant = QuantName(quant_policy)]]
        IN  ClockAdd(w1, Bound(p, IF schedule_silence THEN "_silence" ELSE "_func"),
                     time, once, << >>, kwargs)

(* Player._func, were the exception of the sink action to leave it *)
func_unguarded(w, p, kwargs) ==
    LET pattern == Patterns[KwVal(kwargs, "pattern")]
        pl == w.players[p]
        idx == pl.iterator - pl.silence_count
        args == args_resolver(pattern.args, idx)
        new_kwargs == kwargs_resolver(pattern.kwargs, idx)
        w1 == [w EXCEPT
                 !.sink[p] = [n |-> @.n + 1, idx |-> idx, args |-> args,
                              kwargs |-> new_kwargs,
                              raised |-> pattern.send_method = "send_raises"]]
    IN  IF pattern.send_method = "send_raises"
        THEN [w1 EXCEPT !.out = "exc"]
        ELSE push([w1 EXCEPT !.players[p].iterator = @ + 1], p, TRUE)

(* Player._func, called with the kwargs of its registry entry *)
func(w, p, kwargs) ==
    LET pattern == Patterns[KwVal(kwargs, "pattern")]
        pl == w.players[p]
        idx == pl.iterator - pl.silence_count
        args == args_resolver(pattern.args, idx)
        new_kwargs == kwargs_resolver(pattern.kwargs, idx)
        w1 == [w EXCEPT
                 !.sink[p] = [n |-> @.n + 1, idx |-> idx, args |-> args,
                              kwargs |-> new_kwargs,
                              raised |-> pattern.send_method = "send_raises"],
                 !.players[p].iterator = @ + 1]
    IN  push(w1, p, TRUE)

(* Player._silence *)
silence(w, p) == push([w EXCEPT !.players[p].iterator = @ + 1], p, TRUE)

(* Player._transition_to_next_pattern *)
transition_to_next_pattern(w, p) ==
    IF w.players[p].next_pattern # "None"
    THEN push([w EXCEPT !.players[p].pattern = w.players[p].next_pattern,
                        !.players[p].next_pattern = "None",
                        !.players[p].iterator = 0,
                        !.players[p].silence_count = 0,
                        !.sink[p] = NoSink], p, FALSE)
    ELSE w

(* Clock.remove_by_name *)
remove_by_name(w, name) == IF Has(w.children, name) THEN Del(w, name) ELSE w

(* Player.stop *)
stop(w, p) ==
    remove_by_name([w EXCEPT !.players[p] = NewPlayer, !.sink[p] = NoSink], p)

(* Player._schedule_next_pattern *)
schedule_next_pattern(w, p) ==
    ClockAdd(w, Bound(p, "_transition_to_next_pattern"), next_beat(w.beat), FALSE, << >>,
             {<<"name", p \o "_pattern_transition">>})

(* Player.__mul__ *)
mul(w, p, pattern) ==
    IF pattern = "None" THEN stop(w, p)
    ELSE IF w.players[p].pattern = "None"
         THEN push([w EXCEPT !.players[p].pattern = pattern], p, FALSE)
         ELSE schedule_next_pattern([w EXCEPT !.players[p].next_pattern = pattern], p)

----------------------------------------------------------------------------
(* The call of a due entry's payload, clock.py lines 132-133 *)

(* whether the arguments bind to the parameters of the callable *)
Binds(item) ==
    IF item.func.kind = "_transition_to_next_pattern"
    THEN item.args = << >> /\ item.kwargs = {}
    ELSE IF item.func.kind = "_func"
         THEN (Len(item.args) >= 1) # (\E kv \in item.kwargs : kv[1] = "pattern")
         ELSE TRUE

(* the outcome is "ok", "bad" (BadFunctionError) or "exc" (any other exception) *)
Call(w, item) ==
    LET kind == item.func.kind
    IN  IF ~Binds(item) THEN [w EXCEPT !.out = "exc"]
        ELSE IF kind = "bad" THEN [w EXCEPT !.out = "bad"]
        ELSE IF kind = "boom" THEN [w EXCEPT !.out = "exc"]
        ELSE IF kind = "readd" THEN ClockAdd(w, item.func, NoTime, FALSE, << >>, NoKwargs)
        ELSE IF kind = "clear" THEN ClockClear(w)
        ELSE IF kind = "remove" THEN ClockRemove(w, f_ok)
        ELSE IF kind = "_func" THEN func(w, item.func.owner, item.kwargs)
        ELSE IF kind = "_silence" THEN silence(w, item.func.owner)
        ELSE IF kind = "_transition_to_next_pattern"
             THEN transition_to_next_pattern(w, item.func.owner)
        ELSE w

----------------------------------------------------------------------------
(* State *)

NoEvent == [name |-> "", priority |-> NoTime, item |-> NoItem, once |-> FALSE,
            stale |-> FALSE]

(* `pending`, `high` and `sorted` are the history of the pass: the identities that
   were due when it began and were not called yet, the highest due beat called so
   far, and whether every call so far was of an entry due no earlier than the
   calls before it *)
NewLoop == [pc |-> "unborn", queue |-> << >>, pending |-> {}, high |-> NoTime,
            sorted |-> TRUE]

(* the arguments of a call made from outside *)
NoCall == [func |-> Fn("", ""), time |-> NoTime, once |-> FALSE, args |-> << >>,
           pattern |-> ""]

NoLast == [op |-> "init", who |-> "", call |-> NoCall, note |-> NoNote,
           fired |-> NoEvent, out |-> "ok"]

World ==
    [children |-> children, loops |-> loops, uuid |-> uuid, beat |-> beat,
     players |-> players, hist |-> hist, sink |-> sink, note |-> NoNote, out |-> "ok"]

Commit(w, op, who, call, fired) ==
    /\ children' = w.children
    /\ loops' = w.loops
    /\ uuid' = w.uuid
    /\ players' = w.players
    /\ hist' = w.hist
    /\ sink' = w.sink
    /\ last' = [op |-> op, who |-> who, call |-> call, note |-> w.note,
                fired |-> fired, out |-> w.out]

(* Clock.__init__ and Player.__init__ *)
Constructed ==
    /\ children = << >>
    /\ beat = 0
    /\ stop_event = FALSE
    /\ clock_thread = "None"
    /\ uuid = 0
    /\ players = [p \in PlayerNames |-> NewPlayer]
    /\ ops = 0
    /\ hist = [n \in IdentityNames |-> NoHist]
    /\ sink = [p \in PlayerNames |-> NoSink]
    /\ last = NoLast

(* the value `threading.Thread(target=self.run).start()` returns *)
ThreadStarted == "None"

(* the program as __main__ leaves it: clock.start() was called once *)
Init ==
    /\ Constructed
    /\ loops = [t \in Threads |-> IF t = 1 THEN [NewLoop EXCEPT !.pc = "head"] ELSE NewLoop]

(* a clock on which start() was not called yet *)
InitIdle ==
    /\ Constructed
    /\ loops = [t \in Threads |-> NewLoop]

----------------------------------------------------------------------------
(* Calls made from outside the loop threads *)

Outside(limit) ==
    /\ ops < limit
    /\ ops' = ops + 1
    /\ UNCHANGED <<beat, stop_event, clock_thread>>

Add(f, time, once, args) ==
    /\ Outside(MaxOps)
    /\ f.name = "<lambda>" => uuid < MaxUuid
    /\ Commit(ClockAdd(World, f, time, once, args, NoKwargs), "add", "",
              [NoCall EXCEPT !.func = f, !.time = time, !.once = once, !.args = args],
              NoEvent)

Remove(f) ==
    /\ Outside(MaxOps)
    /\ Commit(ClockRemove(World, f), "remove", "", [NoCall EXCEPT !.func = f], NoEvent)

Clear ==
    /\ Outside(MaxOps)
    /\ Commit(ClockClear(World), "clear", "", NoCall, NoEvent)

Mul(p, pattern) ==
    /\ Outside(MaxPlayerOps)
    /\ Commit(mul(World, p, pattern), "mul", p, [NoCall EXCEPT !.pattern = pattern], NoEvent)

(* the handler of "all_notes_off", Player.stop *)
AllNotesOff(p) ==
    /\ Outside(MaxPlayerOps)
    /\ Commit(stop(World, p), "stop", p, NoCall, NoEvent)

(* Clock.start *)
Start ==
    /\ ops < MaxOps
    /\ ops' = ops + 1
    /\ \E t \in Threads : loops[t].pc = "unborn"
    /\ IF clock_thread = "None"
       THEN LET t == CHOOSE u \in Threads : loops[u].pc = "unborn"
            IN  /\ loops' = [loops EXCEPT ![t].pc = "head"]
                /\ clock_thread' = ThreadStarted
       ELSE UNCHANGED <<loops, clock_thread>>
    /\ last' = [NoLast EXCEPT !.op = "start"]
    /\ UNCHANGED <<children, beat, stop_event, uuid, players, hist, sink>>

(* Clock.stop *)
StopClock ==
    /\ ops < MaxOps
    /\ ops' = ops + 1
    /\ stop_event' = TRUE
    /\ last' = [NoLast EXCEPT !.op = "stop_clock"]
    /\ UNCHANGED <<children, beat, clock_thread, loops, uuid, players, hist, sink>>

----------------------------------------------------------------------------
(* Clock.run and Clock._execute_due_functions, on loop thread t *)

Min(a, b) == IF a < b THEN a ELSE b

Running(t) == loops[t].pc \in {"head", "exec", "del"}

(* the head of the loop, were it to begin a pass whatever the stop event says *)
PassBeginUnstoppable(t, b) ==
    /\ loops[t].pc = "head"
    /\ b \in Transport
    /\ b >= beat
    /\ beat' = b
    /\ loops' = [loops EXCEPT ![t] =
                    [pc |-> "exec",
                     queue |-> SortedBy(MapSeq(children, Ref)),
                     pending |-> {children[i].name : i \in {j \in 1..Len(children) :
                                                            children[j].priority <= b}},
                     high |-> NoTime,
                     sorted |-> TRUE]]
    /\ last' = [NoLast EXCEPT !.op = "begin"]
    /\ UNCHANGED <<children, stop_event, clock_thread, uuid, players, ops, hist, sink>>

(* lines 120-121 and 127: the stop event is clear; refresh the beat, sort the entries *)
PassBegin(t, b) ==
    /\ loops[t].pc = "head"
    /\ ~stop_event
    /\ b \in Transport
    /\ b >= beat
    /\ beat' = b
    /\ loops' = [loops EXCEPT ![t] =
                    [pc |-> "exec",
                     queue |-> SortedBy(MapSeq(children, Ref)),
                     pending |-> {children[i].name : i \in {j \in 1..Len(children) :
                                                            children[j].priority <= b}},
                     high |-> NoTime,
                     sorted |-> TRUE]]
    /\ last' = [NoLast EXCEPT !.op = "begin"]
    /\ UNCHANGED <<children, stop_event, clock_thread, uuid, players, ops, hist, sink>>

(* line 120: the stop event is set *)
LoopExit(t) ==
    /\ loops[t].pc = "head"
    /\ stop_event
    /\ loops' = [loops EXCEPT ![t].pc = "done"]
    /\ last' = [NoLast EXCEPT !.op = "exit"]
    /\ UNCHANGED <<children, beat, stop_event, clock_thread, uuid, players, ops, hist, sink>>

(* line 130: the entry is not due *)
Skip(t) ==
    /\ loops[t].pc = "exec"
    /\ loops[t].queue # << >>
    /\ Head(loops[t].queue).priority > beat
    /\ loops' = [loops EXCEPT ![t].queue = Tail(@),
                               ![t].pending = @ \ {Head(loops[t].queue).name}]
    /\ last' = [NoLast EXCEPT !.op = "skip"]
    /\ UNCHANGED <<children, beat, stop_event, clock_thread, uuid, players, ops, hist, sink>>

(* what the loop does after the call of entry e, lines 134-138 *)
AfterCall(lp, e, out) ==
    LET called == [lp EXCEPT !.pending = @ \ {e.name},
                             !.high = IF e.priority > @ THEN e.priority ELSE @,
                             !.sorted = @ /\ e.priority >= lp.high]
    IN  IF out = "exc" THEN [called EXCEPT !.pc = "dead"]
        ELSE IF out = "ok" /\ e.once THEN [called EXCEPT !.pc = "del"]
        ELSE [called EXCEPT !.queue = Tail(@)]

(* lines 130-133: the entry is due and its payload is called *)
Invoke(t) ==
    /\ loops[t].pc = "exec"
    /\ loops[t].queue # << >>
    /\ LET e == Head(loops[t].queue)
           w0 == [World EXCEPT !.hist[e.name].fires =
                                   IF hist[e.name].once THEN Min(@ + 1, 2) ELSE @]
           w1 == Call(w0, e.item)
           w2 == [w1 EXCEPT !.loops[t] = AfterCall(@, e, w1.out)]
       IN  /\ e.priority <= beat
           /\ e.item.func.owner # "" => players[e.item.func.owner].iterator < MaxIter
           /\ Commit(w2, "invoke", e.item.func.owner, NoCall, e)
    /\ UNCHANGED <<beat, stop_event, clock_thread, ops>>

(* lines 134-135: del self._children[callable.name]; a KeyError ends the thread *)
OnceDel(t) ==
    /\ loops[t].pc = "del"
    /\ LET e == Head(loops[t].queue)
           w1 == IF Has(children, e.name)
                 THEN [Del(World, e.name) EXCEPT !.loops[t].pc = "exec",
                                                 !.loops[t].queue = Tail(@)]
                 ELSE [World EXCEPT !.loops[t].pc = "dead", !.out = "exc"]
       IN  Commit(w1, "del", "", NoCall, e)
    /\ UNCHANGED <<beat, stop_event, clock_thread, ops>>

(* line 123: the pass is over *)
Sleep(t) ==
    /\ loops[t].pc = "exec"
    /\ loops[t].queue = << >>
    /\ loops' = [loops EXCEPT ![t] = [NewLoop EXCEPT !.pc = "head"]]
    /\ last' = [NoLast EXCEPT !.op = "sleep"]
    /\ UNCHANGED <<children, beat, stop_event, clock_thread, uuid, players, ops, hist, sink>>

Loop ==
    \E t \in Threads :
        \/ \E b \in Transport : PassBegin(t, b)
        \/ Skip(t)
        \/ Invoke(t)
        \/ OnceDel(t)
        \/ Sleep(t)

(* the loop of a clock that may be stopped *)
StoppableLoop ==
    \E t \in Threads :
        \/ \E b \in Transport : PassBegin(t, b)
        \/ LoopExit(t)
        \/ Skip(t)
        \/ Invoke(t)
        \/ OnceDel(t)
        \/ Sleep(t)

----------------------------------------------------------------------------
(* The scheduler alone: one loop, actions added and removed from outside *)

Next ==
    \/ \E c \in AddCalls : Add(c[1], c[2], c[3], c[4])
    \/ \E f \in {f_ok, r_readd, anon} : Remove(f)
    \/ Clear
    \/ Loop

Spec == Init /\ [][Next]_vars

(* The Players on the scheduler: one loop, patterns pushed and stopped from outside *)

NextPlayer ==
    \/ \E p \in PlayerNames, pattern \in PatternIds \cup {"None"} : Mul(p, pattern)
    \/ \E p \in PlayerNames : AllNotesOff(p)
    \/ Loop

SpecPlayer == Init /\ [][NextPlayer]_vars

(* The life of the loop threads: start() and stop() called from outside *)

StartCalls == {<<f_ok, Beats(1), FALSE, << >>>>, <<f_ok, Beats(1), TRUE, << >>>>}

NextStart ==
    \/ Start
    \/ StopClock
    \/ \E c \in StartCalls : Add(c[1], c[2], c[3], c[4])
    \/ StoppableLoop

SpecStart == InitIdle /\ [][NextStart]_vars

(* Payloads that change the registry during the pass that calls them *)

PayloadCalls ==
    ({c_clear} \X {Beats(1)} \X BOOLEAN \X {<< >>})
        \cup ({d_remove} \X {Beats(1)} \X {FALSE} \X {<< >>})
        \cup ({f_ok} \X {Beats(2)} \X BOOLEAN \X {<< >>})

NextPayload ==
    \/ \E c \in PayloadCalls : Add(c[1], c[2], c[3], c[4])
    \/ Loop

SpecPayload == Init /\ [][NextPayload]_vars

(* The resolvers alone: Player._func, lines 240-243, applied to a pattern whose
   positional and keyword values are drawn from the nested values, on a Player
   whose counters are drawn from the values they take *)

MaxArgs == 2    \* positional values of a pattern
MaxDepth == 2   \* nesting of Patterns and producers in a keyword value

Concrete == {Num(60), Str("x")}

RECURSIVE NestedValues(_)
NestedValues(d) ==
    IF d = 0 THEN Concrete
    ELSE LET V == NestedValues(d - 1)
         IN  V \cup {Lazy(v) : v \in V} \cup {Pat(<<Num(62), v>>) : v \in V}

ArgTuples == UNION {[1..n -> NestedValues(1)] : n \in 0..MaxArgs}

InitResolver ==
    /\ children = << >>
    /\ beat = 0
    /\ stop_event = FALSE
    /\ clock_thread = "None"
    /\ uuid = 0
    /\ ops = 0
    /\ hist = [n \in IdentityNames |-> NoHist]
    /\ sink = [p \in PlayerNames |-> NoSink]
    /\ loops = [t \in Threads |-> NewLoop]
    /\ \E p \in PlayerNames, i \in 0..MaxIter, s \in {0, 1},
          args \in ArgTuples, v \in NestedValues(MaxDepth) :
          /\ s <= i
          /\ players = [q \in PlayerNames |->
                           IF q = p THEN [NewPlayer EXCEPT !.iterator = i,
                                                           !.silence_count = s]
                           ELSE NewPlayer]
          /\ last = [NoLast EXCEPT !.op = "pattern", !.who = p,
                                   !.call = PlayerPattern("send", args, [vel |-> v])]

(* lines 240-243: the sink is called with the resolved values *)
Resolve(p) ==
    /\ last.op = "pattern"
    /\ last.who = p
    /\ LET idx == players[p].iterator - players[p].silence_count
       IN  sink' = [sink EXCEPT ![p] =
                       [n |-> 1, idx |-> idx,
                        args |-> args_resolver(last.call.args, idx),
                        kwargs |-> kwargs_resolver(last.call.kwargs, idx),
                        raised |-> FALSE]]
    /\ last' = [last EXCEPT !.op = "resolved"]
    /\ UNCHANGED <<children, beat, stop_event, clock_thread, loops, uuid, players, ops, hist>>

NextResolver == \E p \in PlayerNames : Resolve(p)

SpecResolver == InitResolver /\ [][NextResolver]_vars

(* the same, with loop threads that the interpreter keeps scheduling: a thread that
   can take a step of Clock.run eventually takes one *)
SpecStartLive == InitIdle /\ [][NextStart]_vars /\ WF_vars(StoppableLoop)

----------------------------------------------------------------------------
(* Properties *)

Kind(e) == e.item.func.kind

(* the pass of loop t is over: it reached the sleep, or an exception ended it *)
PassOver(t) ==
    \/ loops[t].pc = "dead"
    \/ loops[t].pc = "exec" /\ loops[t].queue = << >>

BetweenPasses(t) == loops[t].pc \in {"unborn", "head", "done"} \/ PassOver(t)

(* the sink action of the pattern that entry e carries raises *)
SinkRaises(e) ==
    /\ Kind(e) = "_func"
    /\ Patterns[KwVal(e.item.kwargs, "pattern")].send_method = "send_raises"

(* C1: the registry holds at most one entry per identity, and right after an add
   whose identity already had an entry, that entry's due beat and payload are the
   arguments of that add. *)
C1_IdempotentAdd ==
    /\ \A i, j \in 1..Len(children) : children[i].name = children[j].name => i = j
    /\ (last.op = "add" /\ last.note.existed) =>
          LET e == Get(children, last.call.func.name)
          IN  /\ e.priority = last.call.time
              /\ e.item = Item(last.call.func, last.call.args, NoKwargs)
    /\ (last.note.name # "" /\ last.note.existed) =>
          /\ Has(children, last.note.name)
          /\ Get(children, last.note.name).priority = last.note.time
          /\ Get(children, last.note.name).item = last.note.item

(* an action was added a second time, with another due beat and other arguments,
   while other entries are in the registry *)
C1_Witness ==
    /\ last.op = "add"
    /\ last.note.existed
    /\ last.call.time = Beats(2)
    /\ last.call.args = <<1>>
    /\ Len(children) >= 2

(* C2: when a pass is over, every entry that was due when it began has been called,
   the calls were made in ascending order of due beat, and no entry due after the
   current beat was called. *)
C2_DueOrdering ==
    \A t \in Threads :
        PassOver(t) =>
            /\ loops[t].pending = {}
            /\ loops[t].sorted
            /\ loops[t].high <= beat

(* C3: an entry added with once=true is called at most once, and is absent from the
   registry once the pass that called it is over. *)
C3_OnceSemantics ==
    \A n \in IdentityNames :
        hist[n].once =>
            /\ hist[n].fires <= 1
            /\ (hist[n].fires >= 1 /\ \A t \in Threads : BetweenPasses(t))
                  => ~Has(children, n)

(* C4: an activation whose dur resolves to a Rest of duration d adds 1 to
   _silence_count and schedules the next activation d after the due beat of the
   entry that fired; a silence does not call the sink; the index handed to the
   Patterns by the calls of the sink runs 0, 1, 2, ... *)
C4_RestContinuity ==
    [][\A p \in PlayerNames :
        /\ (last'.op = "invoke" /\ last'.who = p /\ last'.note.rest) =>
              /\ players'[p].silence_count = players[p].silence_count + 1
              /\ Has(children', "_silence")
              /\ Get(children', "_silence").priority
                    = last'.fired.priority + last'.note.dur
        /\ (last'.op = "invoke" /\ last'.who = p /\ Kind(last'.fired) = "_silence") =>
              sink'[p] = sink[p]
        /\ sink'[p].n > 0 => sink'[p].idx = sink'[p].n - 1]_vars

(* C5: the first pattern pushed onto an idle Player is scheduled by its quant
   policy: bar, off a bar boundary, at the smallest multiple of the bar length that
   is not before the current beat; beat at the next beat boundary; now at the
   current beat; a number q at the current beat plus q. *)
C5_QuantizedEntry ==
    (/\ last.op = "mul"
     /\ last.call.pattern # "None"
     /\ last.note.name \in {"_func", "_silence"}) =>
        LET q == KwGet(Patterns[last.call.pattern].kwargs, "quant", Str("now"))
            due == Get(children, last.note.name).priority
        IN  /\ Get(children, last.note.name).item.func.owner = last.who
            /\ (q.t = "str" /\ q.v = "bar" /\ beat % BarTicks # 0) =>
                  /\ due % BarTicks = 0
                  /\ due >= beat
                  /\ due - beat < BarTicks
            /\ (q.t = "str" /\ q.v = "beat") =>
                  /\ due % Res = 0
                  /\ due >= beat
                  /\ due - beat <= Res
            /\ (q.t = "str" /\ q.v = "now") => due = beat
            /\ q.t = "num" => due = beat + q.v

(* a pattern with quant=bar was pushed off a bar boundary and is due at the bar *)
C5_Witness ==
    /\ last.op = "mul"
    /\ last.note.name = "_func"
    /\ last.note.quant = "bar"
    /\ beat % BarTicks # 0
    /\ Get(children, "_func").priority = BarTicks

(* C6: a pattern pushed onto a Player that has an active pattern leaves the active
   pattern and its registry entries as they are and is staged as pending; the
   active pattern changes only when the transition entry fires, and then the
   pending pattern is the active one, the pending slot is empty and both counters
   are 0. *)
C6_SwapContinuity ==
    [][\A p \in PlayerNames :
        /\ (/\ last'.op = "mul" /\ last'.who = p
            /\ last'.call.pattern # "None"
            /\ players[p].pattern # "None") =>
              /\ players'[p].pattern = players[p].pattern
              /\ players'[p].next_pattern = last'.call.pattern
              /\ \A n \in {"_func", "_silence"} :
                    Has(children, n) =>
                        Has(children', n) /\ Get(children', n) = Get(children, n)
        /\ (/\ last'.op = "invoke" /\ last'.who = p
            /\ Kind(last'.fired) = "_transition_to_next_pattern"
            /\ players[p].next_pattern # "None") =>
              /\ players'[p].pattern = players[p].next_pattern
              /\ players'[p].next_pattern = "None"
              /\ players'[p].iterator = 0
              /\ players'[p].silence_count = 0
        /\ (/\ players[p].pattern # "None"
            /\ players'[p].pattern # "None"
            /\ players'[p].pattern # players[p].pattern) =>
              /\ last'.op = "invoke"
              /\ Kind(last'.fired) = "_transition_to_next_pattern"]_vars

(* C7: an activation whose sink action raises returns normally, adds 1 to the step
   index, re-registers the Player at its resolved dur, and leaves the rest of the
   pass as it was: the loop goes on with the entries that follow. *)
C7_FaultIsolation ==
    [][(last'.op = "invoke" /\ SinkRaises(last'.fired)) =>
        LET p == last'.who
        IN  /\ last'.out = "ok"
            /\ players'[p].iterator = players[p].iterator + 1
            /\ (players[p].pattern # "None" \/ players[p].next_pattern # "None") =>
                  /\ last'.note.again
                  /\ last'.note.name \in {"_func", "_silence"}
                  /\ Has(children', last'.note.name)
                  /\ Get(children', last'.note.name).item.func.owner = p
                  /\ Get(children', last'.note.name).priority = last'.note.dur
            /\ \A t \in Threads :
                  loops[t].pc = "exec" =>
                      /\ loops'[t].pc \in {"exec", "del"}
                      /\ Len(loops'[t].queue) >= Len(loops[t].queue) - 1]_vars

(* a sink action raised for the second time, and the entry of another Player, due
   in the same pass, is the next of the pass *)
C7_Witness ==
    /\ last.op = "invoke"
    /\ SinkRaises(last.fired)
    /\ sink[last.who].n >= 2
    /\ \E t \in Threads :
          /\ loops[t].pc = "exec"
          /\ loops[t].queue # << >>
          /\ Head(loops[t].queue).item.func.owner \notin {"", last.who}
          /\ Head(loops[t].queue).priority <= beat

(* C8: at most one thread runs Clock.run. *)
C8_SingleLoop == Cardinality({t \in Threads : Running(t)}) <= 1

(* C9: a payload that raised does not end the loop thread. *)
C9_FailureContained ==
    (last.op = "invoke" /\ last.out # "ok") => \A t \in Threads : loops[t].pc # "dead"

(* C10: a Player with no active and no pending pattern has both counters at 0, no
   registry entry under its identity, and its sink action is not called. *)
C10_StopSilences ==
    \A p \in PlayerNames :
        (players[p].pattern = "None" /\ players[p].next_pattern = "None") =>
            /\ players[p].iterator = 0
            /\ players[p].silence_count = 0
            /\ ~Has(children, p)
            /\ sink[p].n = 0

(* C11: Clock.stop() leaves every loop where it is; a loop ends only at the head of
   Clock.run, so it finishes the pass it is in; a loop at the head with the stop
   event set begins no pass; and once the stop event is set, eventually no thread
   runs Clock.run. *)
C11_StopTerminates ==
    /\ [][(stop_event' /\ ~stop_event) => loops' = loops]_vars
    /\ [][\A t \in Threads :
            /\ (loops'[t].pc = "done" /\ loops[t].pc # "done") => loops[t].pc = "head"
            /\ (stop_event /\ loops[t].pc = "head") => loops'[t].pc \in {"head", "done"}]_vars
    /\ stop_event ~> (\A t \in Threads : ~Running(t))

(* stop() was called while a pass had a due entry left to call *)
C11_Witness ==
    /\ last.op = "stop_clock"
    /\ stop_event
    /\ \E t \in Threads :
          /\ loops[t].pc = "exec"
          /\ loops[t].queue # << >>
          /\ Head(loops[t].queue).priority <= beat

(* C12: the registry is not changed from outside between the call of a once entry
   and its removal by the pass: while the pass is about to delete the entry the
   registry holds it, and the deletion does not fail. *)
C12_NoTornState ==
    /\ \A t \in Threads :
          loops[t].pc = "del" => Has(children, Head(loops[t].queue).name)
    /\ last.op = "del" => last.out = "ok"

(* the quant policies that Player._push knows *)
ValidQuant(q) == (q.t = "str" /\ q.v \in {"bar", "beat", "now"}) \/ q.t = "num"

(* C13: pushing a pattern whose quant policy is none of bar, beat, now or a number
   changes neither the registry nor any Player. *)
C13_InvalidQuantRejected ==
    [][(/\ last'.op = "mul"
        /\ last'.call.pattern # "None"
        /\ ~ValidQuant(KwGet(Patterns[last'.call.pattern].kwargs, "quant", Str("now")))) =>
            /\ children' = children
            /\ players' = players]_vars

(* Entries removed by their action: Players and plain functions on one loop *)

RemoveCalls == {f_ok, g_bad} \cup {Bound(p, "_func") : p \in PlayerNames}

NextRemove ==
    \/ \E c \in StartCalls : Add(c[1], c[2], c[3], c[4])
    \/ \E p \in PlayerNames : Mul(p, "P1")
    \/ \E f \in RemoveCalls : Remove(f)
    \/ Loop

SpecRemove == Init /\ [][NextRemove]_vars

(* C14: Clock.remove with an action deletes the entry stored under the action's
   declared name, if there is one, and changes nothing else. *)
C14_RemoveExact ==
    [][last'.op = "remove" =>
          children' = Without(children, last'.call.func.name)]_vars

(* the entries of the registry whose action belongs to Player p *)
OwnedBy(ch, p) == SelectSeq(ch, LAMBDA e : e.item.func.owner = p)

(* the keyword `once` of the pattern with the given id *)
PatternOnce(id) == id # "None" /\ KwGet(Patterns[id].kwargs, "once", Bool(FALSE)).v

(* C15: a step taken by or for one Player (a push, a stop, an activation) leaves
   the registry entries of every other Player as they are. *)
C15_PlayerIdentity ==
    [][\A p, q \in PlayerNames :
          (p # q /\ last'.who = p /\ last'.op \in {"mul", "stop", "invoke"}) =>
              OwnedBy(children', q) = OwnedBy(children, q)]_vars

(* C16: the re-arm made by an activation is due at the due beat of the entry that
   fired plus the resolved dur. *)
C16_RearmRelative ==
    [][(/\ last'.op = "invoke"
        /\ last'.note.again
        /\ last'.note.name \in {"_func", "_silence"}) =>
            /\ Has(children', last'.note.name)
            /\ Get(children', last'.note.name).priority
                  = last'.fired.priority + last'.note.dur]_vars

(* C17: the sink of a pattern pushed with once=true is called at most once, and
   once it was called and the pass is over the registry holds no entry of that
   Player. *)
C17_OncePattern ==
    \A p \in PlayerNames :
        PatternOnce(players[p].pattern) =>
            /\ sink[p].n <= 1
            /\ (sink[p].n = 1 /\ \A t \in Threads : BetweenPasses(t)) =>
                  OwnedBy(children, p) = << >>

(* C18: the sink receives one positional argument per positional value of the
   pattern, in order: the value of a Pattern at the index, the result of a
   producer, a concrete value as it is. *)
C18_ArgsResolved ==
    last.op = "resolved" =>
        LET p == last.who
            args == last.call.args
            idx == players[p].iterator - players[p].silence_count
        IN  /\ Len(sink[p].args) = Len(args)
            /\ \A i \in 1..Len(args) :
                  sink[p].args[i] = IF args[i].t = "pat" THEN PatternAt(args[i], idx)
                                    ELSE IF args[i].t = "fn" THEN args[i].v
                                    ELSE args[i]

(* C19: no keyword value handed to the sink is a Pattern or a producer. *)
C19_KwargsForced ==
    last.op = "resolved" =>
        \A k \in DOMAIN sink[last.who].kwargs :
            sink[last.who].kwargs[k].t \notin {"pat", "fn"}

(* C20: a pass does not call the payload of an entry that was deleted from the
   registry and not added again, and the removal of a once entry by the pass does
   not fail after a payload cleared the registry. *)
C20_DeletedNotInvoked ==
    /\ [][(last'.op = "invoke" /\ last'.fired.stale) =>
              Has(children, last'.fired.name)]_vars
    /\ [](last.op = "del" => last.out = "ok")

====
